---- MODULE Spec2Model ----
(***************************************************************************)
(* Model of the screen-time tracker: the polling loop of TrackerService,   *)
(* its pause/resume/stop control surface, the name normalizer and the      *)
(* SQLite usage store (Database.record_app_usage / get_today_stats).       *)
(*                                                                         *)
(* Strings are sequences of one-character strings, so that the string      *)
(* operations of the source (endswith, replace, lower, split, capitalize)  *)
(* are computed and not assumed.  Time is an integer count of clock units; *)
(* TicksPerSecond units make one second, so that int(duration) truncates.  *)
(***************************************************************************)
EXTENDS Integers, Sequences, FiniteSets, TLC

\* ------------------------------------------------------------------ bounds
\* last clock reading of a behaviour
MaxTime == 8
\* clock units per second (time.time() is finer than the whole seconds stored)
TicksPerSecond == 2
\* clock units per calendar day
DayLen == 4
\* last clock reading of a behaviour with the presentation thread reading
MaxReadTime == 6
\* last monotonic clock reading of a behaviour whose wall clock is set back
MaxSkewTime == 8
\* most calls of record_app_usage that raise in one behaviour
MaxFailures == 2
\* latest wall clock reading at which the scripted scenario begins
MaxScenarioOrigin == 3
\* latest calendar day on which the store is queried
MaxQueryDay == 9

\* --------------------------------------------------------- string helpers
UpperAlpha == <<"A","B","C","D","E","F","G","H","I","J","K","L","M",
                "N","O","P","Q","R","S","T","U","V","W","X","Y","Z">>
LowerAlpha == <<"a","b","c","d","e","f","g","h","i","j","k","l","m",
                "n","o","p","q","r","s","t","u","v","w","x","y","z">>

\* str.lower() / str.upper() on one character
LowerCh(c) ==
    IF \E i \in DOMAIN UpperAlpha : UpperAlpha[i] = c
    THEN LowerAlpha[CHOOSE i \in DOMAIN UpperAlpha : UpperAlpha[i] = c]
    ELSE c
UpperCh(c) ==
    IF \E i \in DOMAIN LowerAlpha : LowerAlpha[i] = c
    THEN UpperAlpha[CHOOSE i \in DOMAIN LowerAlpha : LowerAlpha[i] = c]
    ELSE c

\* str.lower()
Lower(s) == [i \in DOMAIN s |-> LowerCh(s[i])]

\* str.endswith(suf)
EndsWith(s, suf) ==
    /\ Len(s) >= Len(suf)
    /\ SubSeq(s, Len(s) - Len(suf) + 1, Len(s)) = suf

\* sub in s
Contains(s, sub) ==
    \E i \in 1..(Len(s) - Len(sub) + 1) : SubSeq(s, i, i + Len(sub) - 1) = sub

\* str.replace(old, ""), old non-empty: leftmost non-overlapping occurrences
RECURSIVE Remove(_, _)
Remove(s, old) ==
    IF Len(s) < Len(old) THEN s
    ELSE IF SubSeq(s, 1, Len(old)) = old
         THEN Remove(SubSeq(s, Len(old) + 1, Len(s)), old)
         ELSE <<Head(s)>> \o Remove(Tail(s), old)

IsSpace(c) == c = " "

\* str.split(): the maximal runs of non-whitespace characters
RECURSIVE Split(_)
Split(s) ==
    IF s = <<>> THEN <<>>
    ELSE IF IsSpace(Head(s)) THEN Split(Tail(s))
    ELSE LET n == IF \E i \in DOMAIN s : IsSpace(s[i])
                  THEN (CHOOSE i \in DOMAIN s :
                            /\ IsSpace(s[i])
                            /\ \A j \in 1..(i - 1) : ~IsSpace(s[j])) - 1
                  ELSE Len(s)
         IN  <<SubSeq(s, 1, n)>> \o Split(SubSeq(s, n + 1, Len(s)))

\* str.capitalize(): first character upper-cased, the rest lower-cased
Capitalize(w) ==
    [i \in DOMAIN w |-> IF i = 1 THEN UpperCh(w[i]) ELSE LowerCh(w[i])]

\* ' '.join(words)
RECURSIVE Join(_)
Join(words) ==
    IF words = <<>> THEN <<>>
    ELSE IF Len(words) = 1 THEN words[1]
    ELSE words[1] \o <<" ">> \o Join(Tail(words))

DotExe == <<".","e","x","e">>
DotEXE == <<".","E","X","E">>

\* the ordered alias table of normalize_app_name (dict insertion order)
mappings ==
    << << <<"c","h","r","o","m","e">>, <<"G","o","o","g","l","e"," ","C","h","r","o","m","e">> >>,
       << <<"m","s","e","d","g","e">>, <<"M","i","c","r","o","s","o","f","t"," ","E","d","g","e">> >>,
       << <<"f","i","r","e","f","o","x">>, <<"M","o","z","i","l","l","a"," ","F","i","r","e","f","o","x">> >>,
       << <<"c","o","d","e">>, <<"V","i","s","u","a","l"," ","S","t","u","d","i","o"," ","C","o","d","e">> >>,
       << <<"n","o","t","e","p","a","d","+","+">>, <<"N","o","t","e","p","a","d","+","+">> >>,
       << <<"d","e","v","e","n","v">>, <<"V","i","s","u","a","l"," ","S","t","u","d","i","o">> >>,
       << <<"w","i","n","w","o","r","d">>, <<"M","i","c","r","o","s","o","f","t"," ","W","o","r","d">> >>,
       << <<"e","x","c","e","l">>, <<"M","i","c","r","o","s","o","f","t"," ","E","x","c","e","l">> >>,
       << <<"p","o","w","e","r","p","n","t">>, <<"M","i","c","r","o","s","o","f","t"," ","P","o","w","e","r","P","o","i","n","t">> >>,
       << <<"o","u","t","l","o","o","k">>, <<"M","i","c","r","o","s","o","f","t"," ","O","u","t","l","o","o","k">> >>,
       << <<"d","i","s","c","o","r","d">>, <<"D","i","s","c","o","r","d">> >>,
       << <<"s","p","o","t","i","f","y">>, <<"S","p","o","t","i","f","y">> >>,
       << <<"s","t","e","a","m">>, <<"S","t","e","a","m">> >>,
       << <<"v","l","c">>, <<"V","L","C"," ","M","e","d","i","a"," ","P","l","a","y","e","r">> >> >>

\* normalize_app_name without the alias table of lines 79-99
normalize_app_name_NoAlias(app_name) ==
    LET stripped == Remove(Remove(app_name, DotExe), DotEXE)
    IN  Join([k \in DOMAIN Split(stripped) |-> Capitalize(Split(stripped)[k])])

\* normalize_app_name returning the last matching alias of the table
normalize_app_name_LastAlias(app_name) ==
    LET stripped  == Remove(Remove(app_name, DotExe), DotEXE)
        app_lower == Lower(stripped)
        hits      == {i \in DOMAIN mappings : Contains(app_lower, mappings[i][1])}
    IN  IF hits # {}
        THEN mappings[CHOOSE i \in hits : \A j \in hits : i >= j][2]
        ELSE Join([k \in DOMAIN Split(stripped) |-> Capitalize(Split(stripped)[k])])

\* TrackerService.normalize_app_name
normalize_app_name(app_name) ==
    LET stripped  == Remove(Remove(app_name, DotExe), DotEXE)
        app_lower == Lower(stripped)
        hits      == {i \in DOMAIN mappings : Contains(app_lower, mappings[i][1])}
    IN  IF hits # {}
        THEN mappings[CHOOSE i \in hits : \A j \in hits : i <= j][2]
        ELSE Join([k \in DOMAIN Split(stripped) |-> Capitalize(Split(stripped)[k])])


\* ------------------------------------------------------------ the engine
\* Python's None where a string is expected; no string equals it
None == <<"None">>
\* Python's None where a timestamp is expected
NoTime == -1
\* truthiness of an optional string: None and "" are both false
Truthy(s) == s # None /\ s # <<>>

\* TrackerService.__init__: poll_interval, in seconds
poll_interval == 2
\* LIMIT of the top-apps query
TopLimit == 10

chrome_exe   == <<"c","h","r","o","m","e",".","e","x","e">>
code_exe     == <<"c","o","d","e",".","e","x","e">>
explorer_exe == <<"e","x","p","l","o","r","e","r",".","e","x","e">>
Unknown      == <<"U","n","k","n","o","w","n">>

\* what the operating system can report for the foreground window:
\* hwnd = FALSE is "no foreground window", raises = TRUE a failing win32
\* call, proc = None a process psutil cannot open (NoSuchProcess,
\* AccessDenied)
Foreground ==
    {[hwnd |-> FALSE, raises |-> FALSE, proc |-> None, title |-> <<>>],
     [hwnd |-> TRUE,  raises |-> TRUE,  proc |-> None, title |-> <<>>],
     [hwnd |-> TRUE,  raises |-> FALSE, proc |-> chrome_exe, title |-> <<"T">>],
     [hwnd |-> TRUE,  raises |-> FALSE, proc |-> code_exe, title |-> <<"T">>],
     [hwnd |-> TRUE,  raises |-> FALSE, proc |-> explorer_exe, title |-> <<>>],
     [hwnd |-> TRUE,  raises |-> FALSE, proc |-> None, title |-> <<>>]}

system_processes ==
    { <<"d","w","m">>, <<"e","x","p","l","o","r","e","r">>,
      <<"w","i","n","l","o","g","o","n">>, <<"c","s","r","s","s">>,
      <<"l","s","a","s","s">> }

\* get_active_window_info without the try/except of lines 34 and 68-70: the
\* failing call leaves the process unknown and the title empty
get_active_window_info_Uncaught(fg) ==
    IF ~fg.hwnd THEN None
    ELSE IF fg.raises THEN <<>>
    ELSE LET process_name ==
                 IF fg.proc = None THEN Unknown
                 ELSE IF EndsWith(fg.proc, DotExe)
                      THEN SubSeq(fg.proc, 1, Len(fg.proc) - 4)
                      ELSE fg.proc
             app_name == IF process_name # Unknown THEN process_name ELSE fg.title
         IN  IF Lower(app_name) \in system_processes THEN None ELSE app_name

\* TrackerService.get_active_window_info: the app_name of the returned
\* dict, or None
get_active_window_info(fg) ==
    IF fg.raises THEN None
    ELSE IF ~fg.hwnd THEN None
    ELSE LET process_name ==
                 IF fg.proc = None THEN Unknown
                 ELSE IF EndsWith(fg.proc, DotExe)
                      THEN SubSeq(fg.proc, 1, Len(fg.proc) - 4)
                      ELSE fg.proc
             app_name == IF process_name # Unknown THEN process_name ELSE fg.title
         IN  IF Lower(app_name) \in system_processes THEN None ELSE app_name

\* int(time.time() - self.app_start_time), in whole seconds; int() truncates
\* toward zero, also for a negative difference
FlushSeconds(start, end) ==
    IF end >= start THEN (end - start) \div TicksPerSecond
    ELSE -((start - end) \div TicksPerSecond)

\* date.today(): the calendar day of a clock reading
Day(t) == t \div DayLen


\* ------------------------------------------------------------------ state
VARIABLES
    running,          \* TrackerService.running
    current_app,      \* TrackerService.current_app (None or a string)
    app_start_time,   \* TrackerService.app_start_time (NoTime or a clock reading)
    tracking_paused,  \* TrackerService.tracking_paused
    lock,             \* holder of TrackerService.lock: "free", "poll" or "ui"
    pc,               \* position of the polling thread and of the UI thread
    ret,              \* where a thread inside record_app_usage returns to
    window_info,      \* start(): the tick's probe result (app_name or None)
    probe_raised,     \* history: the tick's probe caught an exception
    wake,             \* end of the polling thread's current time.sleep
    call,             \* arguments of the record_app_usage call in progress
    now,              \* the wall clock, time.time()
    uptime,           \* the monotonic clock, which time.sleep follows
    app_usage,        \* table app_usage as the shared connection sees it
    sessions,         \* table sessions as the shared connection sees it
    disk_app_usage,   \* table app_usage as last committed
    disk_sessions,    \* table sessions as last committed
    read_total,       \* get_today_stats(): total_seconds read by the first query
    today_stats,      \* the last value returned by get_today_stats()
    weekly_stats,     \* the last value returned by get_weekly_stats()
    app_history,      \* the last value returned by get_app_history()
    stats_basis,      \* history: the date and the tables today_stats was read from
    stop_called,      \* history: stop() has been called
    flushes,          \* history: the intervals handed to the store, in order
    last_paused,      \* history: the latest clock unit that elapsed while paused
    resampled         \* history: a tick sampled the attributed app again

vars == <<running, current_app, app_start_time, tracking_paused, lock, pc, ret,
          window_info, probe_raised, wake, call, now, uptime, app_usage, sessions, disk_app_usage,
          disk_sessions, read_total, today_stats, weekly_stats, app_history,
          stats_basis, stop_called, flushes,
          last_paused, resampled>>

engine  == <<running, current_app, app_start_time, tracking_paused>>
store   == <<app_usage, sessions, disk_app_usage, disk_sessions>>
reader  == <<read_total, today_stats, weekly_stats, app_history, stats_basis>>

NoCall  == [app_name |-> None, duration_seconds |-> 0, today |-> -1]
NoStats == [total_seconds |-> -1, top_apps |-> <<>>]
NoWeekly == [today |-> -1, daily_stats |-> <<>>, top_apps |-> <<>>]
NoHistory == <<[date |-> -1, duration |-> -1]>>
NoBasis == <<-1>>
NoRead  == [today |-> -1, total_seconds |-> -1]
EmptyTable == [k \in {} |-> 0]

\* TrackerService.__init__ and Database.init_database (CREATE TABLE IF NOT
\* EXISTS) on a database file that holds the tables usage and summary, with
\* the wall clock reading t0
InitStored(t0, usage, summary) ==
    /\ running = FALSE
    /\ current_app = None
    /\ app_start_time = NoTime
    /\ tracking_paused = FALSE
    /\ lock = "free"
    /\ pc = [poll |-> "start", ui |-> "idle"]
    /\ ret = [poll |-> "none", ui |-> "none"]
    /\ window_info = None
    /\ probe_raised = FALSE
    /\ wake = 0
    /\ call = NoCall
    /\ now = t0
    /\ uptime = 0
    /\ app_usage = usage
    /\ sessions = summary
    /\ disk_app_usage = usage
    /\ disk_sessions = summary
    /\ read_total = NoRead
    /\ today_stats = NoStats
    /\ weekly_stats = NoWeekly
    /\ app_history = NoHistory
    /\ stats_basis = NoBasis
    /\ stop_called = FALSE
    /\ flushes = <<>>
    /\ last_paused = -1
    /\ resampled = FALSE

\* the same on a fresh database
InitAt(t0) == InitStored(t0, EmptyTable, EmptyTable)

Init == InitAt(0)

\* ------------------------------------------------------------- the store
\* INSERT INTO app_usage ... ON CONFLICT(date, app_name) DO UPDATE SET
\* duration_seconds = duration_seconds + ?
UpsertAppUsage(table, today, app_name, duration_seconds) ==
    IF <<today, app_name>> \in DOMAIN table
    THEN [table EXCEPT ![<<today, app_name>>] = @ + duration_seconds]
    ELSE table @@ (<<today, app_name>> :> duration_seconds)

\* the sessions upsert with SET total_seconds = ? (overwriting)
UpsertSession_Overwrite(table, today, duration_seconds) ==
    IF today \in DOMAIN table
    THEN [table EXCEPT ![today].total_seconds = duration_seconds]
    ELSE table @@ (today :> [total_seconds |-> duration_seconds, app_count |-> 1])

\* INSERT INTO sessions ... VALUES (?, ?, 1, ...) ON CONFLICT(date) DO UPDATE
\* SET total_seconds = total_seconds + ?
UpsertSession(table, today, duration_seconds) ==
    IF today \in DOMAIN table
    THEN [table EXCEPT ![today].total_seconds = @ + duration_seconds]
    ELSE table @@ (today :> [total_seconds |-> duration_seconds, app_count |-> 1])

\* sum of duration_seconds over the app_usage rows of one date
RECURSIVE SumRows(_, _)
SumRows(table, keys) ==
    IF keys = {} THEN 0
    ELSE LET k == CHOOSE k \in keys : TRUE
         IN  table[k] + SumRows(table, keys \ {k})
DayRows(table, d) == {k \in DOMAIN table : k[1] = d}
DaySum(table, d) == SumRows(table, DayRows(table, d))

\* the history entry of a flush that reaches the store; paused tells whether
\* a clock unit of [start, end) elapsed while tracking was paused, raised
\* whether the tick's probe had failed, failed whether the store raised
Flushed(by) ==
    [app |-> current_app, start |-> app_start_time, end |-> now,
     seconds |-> FlushSeconds(app_start_time, now), by |-> by,
     paused |-> last_paused >= app_start_time, resampled |-> resampled,
     raised |-> probe_raised, failed |-> FALSE]

\* record_app_time's guard without duration_seconds > 0
Records_AnyDuration(app_name, duration_seconds) == Truthy(app_name)

\* record_app_time's guard: duration_seconds > 0 and app_name
Records(app_name, duration_seconds) == duration_seconds > 0 /\ Truthy(app_name)

\* record_app_time called outside any with self.lock block
EnterStore_Unlocked(t, by, back) ==
    /\ lock' = lock
    /\ call' = [app_name |-> normalize_app_name(current_app),
                duration_seconds |-> FlushSeconds(app_start_time, now),
                today |-> -1]
    /\ flushes' = Append(flushes, Flushed(by))
    /\ pc' = [pc EXCEPT ![t] = "db_app_usage"]
    /\ ret' = [ret EXCEPT ![t] = back]

\* record_app_time, from the call to the first statement of record_app_usage:
\* thread t, holding the lock, enters the store with the normalized name
EnterStore(t, by, back) ==
    /\ lock' = t
    /\ call' = [app_name |-> normalize_app_name(current_app),
                duration_seconds |-> FlushSeconds(app_start_time, now),
                today |-> -1]
    /\ flushes' = Append(flushes, Flushed(by))
    /\ pc' = [pc EXCEPT ![t] = "db_app_usage"]
    /\ ret' = [ret EXCEPT ![t] = back]


\* time.sleep(self.poll_interval) begins
GoToSleep ==
    /\ pc' = [pc EXCEPT !["poll"] = "sleep"]
    /\ wake' = uptime + poll_interval * TicksPerSecond

\* ------------------------------------------------- the polling thread
\* start(), line 112
Start ==
    /\ pc["poll"] = "start"
    /\ running' = TRUE
    /\ pc' = [pc EXCEPT !["poll"] = "loop"]
    /\ UNCHANGED <<current_app, app_start_time, tracking_paused, lock, ret,
                   window_info, probe_raised, wake, call, now, uptime, store, reader, stop_called,
                   flushes, last_paused, resampled>>

\* the loop with the probe moved inside the with self.lock block
Loop_LockedProbe ==
    /\ pc["poll"] = "loop"
    /\ IF ~running
       THEN pc' = [pc EXCEPT !["poll"] = "final"] /\ wake' = wake /\ lock' = lock
       ELSE IF tracking_paused
            THEN GoToSleep /\ lock' = lock
            ELSE /\ lock = "free"
                 /\ lock' = "poll"
                 /\ pc' = [pc EXCEPT !["poll"] = "probe"]
                 /\ wake' = wake
    /\ UNCHANGED <<engine, ret, window_info, probe_raised, call, now, uptime, store, reader,
                   stop_called, flushes, last_paused, resampled>>

\* while self.running: ... if not self.tracking_paused:
Loop ==
    /\ pc["poll"] = "loop"
    /\ IF ~running
       THEN pc' = [pc EXCEPT !["poll"] = "final"] /\ wake' = wake
       ELSE IF tracking_paused
            THEN GoToSleep
            ELSE pc' = [pc EXCEPT !["poll"] = "probe"] /\ wake' = wake
    /\ UNCHANGED <<engine, lock, ret, window_info, probe_raised, call, now, uptime, store, reader,
                   stop_called, flushes, last_paused, resampled>>

\* window_info = self.get_active_window_info()
Probe ==
    /\ pc["poll"] = "probe"
    /\ \E fg \in Foreground :
           /\ window_info' = get_active_window_info(fg)
           /\ probe_raised' = fg.raises
    /\ pc' = [pc EXCEPT !["poll"] = "tick"]
    /\ UNCHANGED <<engine, lock, ret, wake, call, now, uptime, store, reader,
                   stop_called, flushes, last_paused, resampled>>

\* lines 131-135 with the new app inheriting the previous start time
UpdateCurrent_Backdated(app, start, sampled, t) ==
    IF app # sampled THEN <<sampled, IF start = NoTime THEN t ELSE start>>
    ELSE IF start = NoTime THEN <<app, t>>
    ELSE <<app, start>>

\* lines 131-135 with the start time stamped on every tick
UpdateCurrent_Restamped(app, start, sampled, t) ==
    IF app # sampled THEN <<sampled, t>> ELSE <<app, t>>

\* lines 131-135: the new value of <<current_app, app_start_time>>
UpdateCurrent(app, start, sampled, t) ==
    IF app # sampled THEN <<sampled, t>>
    ELSE IF start = NoTime THEN <<app, t>>
    ELSE <<app, start>>

\* a tick that found a window, lines 123-128: under the lock, flush the
\* previous app if the app changed
TickWindow ==
    /\ pc["poll"] = "tick"
    /\ window_info # None
    /\ lock = "free"
    /\ IF /\ Truthy(current_app)
          /\ current_app # window_info
          /\ app_start_time # NoTime
          /\ Records(current_app, FlushSeconds(app_start_time, now))
       THEN /\ EnterStore("poll", "switch", "tick_update")
            /\ UNCHANGED <<engine, wake>>
       ELSE /\ current_app' = UpdateCurrent(current_app, app_start_time, window_info, now)[1]
            /\ app_start_time' = UpdateCurrent(current_app, app_start_time, window_info, now)[2]
            /\ GoToSleep
            /\ UNCHANGED <<running, tracking_paused, lock, ret, call, flushes>>
    /\ UNCHANGED <<window_info, probe_raised, now, uptime, store, reader,
                   stop_called, last_paused>>
    /\ resampled' = IF pc'["poll"] = "db_app_usage" THEN resampled
                    ELSE (current_app = window_info /\ app_start_time # NoTime)

\* lines 131-135 after the flush, then the lock is released and the tick sleeps
TickUpdate ==
    /\ pc["poll"] = "tick_update"
    /\ current_app' = UpdateCurrent(current_app, app_start_time, window_info, now)[1]
    /\ app_start_time' = UpdateCurrent(current_app, app_start_time, window_info, now)[2]
    /\ lock' = "free"
    /\ GoToSleep
    /\ UNCHANGED <<running, tracking_paused, ret, window_info, probe_raised, call, now, uptime, store,
                   reader, stop_called, flushes, last_paused>>
    /\ resampled' = FALSE

\* a tick that found no window, lines 138-141
TickNoWindow ==
    /\ pc["poll"] = "tick"
    /\ window_info = None
    /\ lock = "free"
    /\ IF Truthy(current_app) /\ app_start_time # NoTime
       THEN IF Records(current_app, FlushSeconds(app_start_time, now))
            THEN /\ EnterStore("poll", "none", "tick_reset")
                 /\ UNCHANGED <<engine, wake>>
            ELSE /\ current_app' = None
                 /\ app_start_time' = NoTime
                 /\ GoToSleep
                 /\ UNCHANGED <<running, tracking_paused, lock, ret, call, flushes>>
       ELSE /\ GoToSleep
            /\ UNCHANGED <<engine, lock, ret, call, flushes>>
    /\ probe_raised' = (probe_raised /\ pc'["poll"] = "db_app_usage")
    /\ UNCHANGED <<window_info, now, uptime, store, reader, stop_called,
                   last_paused>>
    /\ resampled' = IF app_start_time' = app_start_time THEN resampled ELSE FALSE

\* the tick without line 143: the app is reset, its start time is kept
TickReset_KeepsStart ==
    /\ pc["poll"] = "tick_reset"
    /\ current_app' = None
    /\ lock' = "free"
    /\ GoToSleep
    /\ probe_raised' = FALSE
    /\ UNCHANGED <<running, app_start_time, tracking_paused, ret, window_info,
                   call, now, uptime, store, reader, stop_called, flushes,
                   last_paused>>
    /\ resampled' = FALSE

\* the tick without lines 142-143: the flushed app stays attributed
TickReset_KeepsApp ==
    /\ pc["poll"] = "tick_reset"
    /\ lock' = "free"
    /\ GoToSleep
    /\ probe_raised' = FALSE
    /\ UNCHANGED <<running, current_app, app_start_time, tracking_paused, ret,
                   window_info, call, now, uptime, store, reader, stop_called,
                   flushes, last_paused>>
    /\ resampled' = FALSE

\* lines 142-143 after the flush, then the lock is released and the tick sleeps
TickReset ==
    /\ pc["poll"] = "tick_reset"
    /\ current_app' = None
    /\ app_start_time' = NoTime
    /\ lock' = "free"
    /\ GoToSleep
    /\ probe_raised' = FALSE
    /\ UNCHANGED <<running, tracking_paused, ret, window_info, call, now, uptime,
                   store, reader, stop_called, flushes, last_paused>>
    /\ resampled' = FALSE

\* time.sleep(self.poll_interval) returns
Sleep ==
    /\ pc["poll"] = "sleep"
    /\ uptime >= wake
    /\ pc' = [pc EXCEPT !["poll"] = "loop"]
    /\ UNCHANGED <<engine, lock, ret, window_info, probe_raised, wake, call, now, uptime, store,
                   reader, stop_called, flushes, last_paused, resampled>>

\* lines 153-156: the final flush once the loop has ended
Final ==
    /\ pc["poll"] = "final"
    /\ lock = "free"
    /\ IF /\ Truthy(current_app)
          /\ app_start_time # NoTime
          /\ Records(current_app, FlushSeconds(app_start_time, now))
       THEN EnterStore("poll", "final", "final_release")
       ELSE /\ pc' = [pc EXCEPT !["poll"] = "done"]
            /\ UNCHANGED <<lock, ret, call, flushes>>
    /\ UNCHANGED <<engine, window_info, probe_raised, wake, now, uptime, store, reader, stop_called,
                   last_paused, resampled>>

\* the with block of the final flush ends and start() returns
FinalRelease ==
    /\ pc["poll"] = "final_release"
    /\ lock' = "free"
    /\ pc' = [pc EXCEPT !["poll"] = "done"]
    /\ UNCHANGED <<engine, ret, window_info, probe_raised, wake, call, now, uptime, store, reader,
                   stop_called, flushes, last_paused, resampled>>


\* ------------------------------------------- Database.record_app_usage
\* lines 74-85: today = date.today(), then the upsert of the per-app row
DbAppUsage(t) ==
    /\ pc[t] = "db_app_usage"
    /\ call' = [call EXCEPT !.today = Day(now)]
    /\ app_usage' = UpsertAppUsage(app_usage, Day(now), call.app_name,
                                   call.duration_seconds)
    /\ pc' = [pc EXCEPT ![t] = "db_sessions"]
    /\ UNCHANGED <<engine, lock, ret, window_info, probe_raised, wake, now, uptime, sessions,
                   disk_app_usage, disk_sessions, reader, stop_called, flushes,
                   last_paused, resampled>>

\* lines 88-95: the upsert of the day's summary row
DbSessions(t) ==
    /\ pc[t] = "db_sessions"
    /\ sessions' = UpsertSession(sessions, call.today, call.duration_seconds)
    /\ pc' = [pc EXCEPT ![t] = "db_commit"]
    /\ UNCHANGED <<engine, lock, ret, window_info, probe_raised, wake, call, now, uptime, app_usage,
                   disk_app_usage, disk_sessions, reader, stop_called, flushes,
                   last_paused, resampled>>

\* line 97: self.conn.commit(), and the return to the caller
DbCommit(t) ==
    /\ pc[t] = "db_commit"
    /\ disk_app_usage' = app_usage
    /\ disk_sessions' = sessions
    /\ call' = NoCall
    /\ pc' = [pc EXCEPT ![t] = ret[t]]
    /\ ret' = [ret EXCEPT ![t] = "none"]
    /\ UNCHANGED <<engine, lock, window_info, probe_raised, wake, now, uptime, app_usage, sessions,
                   reader, stop_called, flushes, last_paused, resampled>>

\* record_app_usage as one step, lines 74-97: what the callers, which hold
\* the engine lock, see of it; today is the value of date.today()
RecordAppUsageOn(t, today) ==
    /\ pc[t] = "db_app_usage"
    /\ app_usage' = UpsertAppUsage(app_usage, today, call.app_name,
                                   call.duration_seconds)
    /\ sessions' = UpsertSession(sessions, today, call.duration_seconds)
    /\ disk_app_usage' = app_usage'
    /\ disk_sessions' = sessions'
    /\ call' = NoCall
    /\ pc' = [pc EXCEPT ![t] = ret[t]]
    /\ ret' = [ret EXCEPT ![t] = "none"]
    /\ UNCHANGED <<engine, lock, window_info, probe_raised, wake, now, uptime,
                   reader, stop_called, flushes, last_paused, resampled>>

\* record_app_usage dating the increment by the start of the interval
RecordAppUsage_StartDate(t) == RecordAppUsageOn(t, Day(app_start_time))

RecordAppUsage(t) == RecordAppUsageOn(t, Day(now))

\* ------------------------------------------------------- the UI thread
\* pause(), lines 165-169 (and 170-172 when nothing reaches the store)
Pause ==
    /\ pc["ui"] = "idle"
    /\ lock = "free"
    /\ IF Truthy(current_app) /\ app_start_time # NoTime
       THEN IF Records(current_app, FlushSeconds(app_start_time, now))
            THEN /\ EnterStore("ui", "pause", "pause_reset")
                 /\ UNCHANGED engine
            ELSE /\ current_app' = None
                 /\ app_start_time' = NoTime
                 /\ tracking_paused' = TRUE
                 /\ UNCHANGED <<running, lock, pc, ret, call, flushes>>
       ELSE /\ tracking_paused' = TRUE
            /\ UNCHANGED <<running, current_app, app_start_time, lock, pc, ret,
                           call, flushes>>
    /\ UNCHANGED <<window_info, probe_raised, wake, now, uptime, store, reader, stop_called,
                   last_paused>>
    /\ resampled' = IF app_start_time' = app_start_time THEN resampled ELSE FALSE

\* pause() without lines 170-171: the flushed attribution stays open
PauseReset_KeepsApp ==
    /\ pc["ui"] = "pause_reset"
    /\ tracking_paused' = TRUE
    /\ lock' = "free"
    /\ pc' = [pc EXCEPT !["ui"] = "idle"]
    /\ UNCHANGED <<running, current_app, app_start_time, ret, window_info, probe_raised,
                   wake, call, now, uptime, store, reader, stop_called, flushes,
                   last_paused>>
    /\ resampled' = resampled

\* pause(), lines 170-172 after the flush; the lock is released
PauseReset ==
    /\ pc["ui"] = "pause_reset"
    /\ current_app' = None
    /\ app_start_time' = NoTime
    /\ tracking_paused' = TRUE
    /\ lock' = "free"
    /\ pc' = [pc EXCEPT !["ui"] = "idle"]
    /\ UNCHANGED <<running, ret, window_info, probe_raised, wake, call, now, uptime, store, reader,
                   stop_called, flushes, last_paused>>
    /\ resampled' = FALSE

\* a resume() that restarts the interval of the attributed app
Resume_Restarts ==
    /\ pc["ui"] = "idle"
    /\ lock = "free"
    /\ tracking_paused' = FALSE
    /\ app_start_time' = IF Truthy(current_app) THEN now ELSE app_start_time
    /\ UNCHANGED <<running, current_app, lock, pc, ret,
                   window_info, probe_raised, wake, call, now, uptime, store, reader, stop_called,
                   flushes, last_paused, resampled>>

\* resume()
Resume ==
    /\ pc["ui"] = "idle"
    /\ lock = "free"
    /\ tracking_paused' = FALSE
    /\ UNCHANGED <<running, current_app, app_start_time, lock, pc, ret,
                   window_info, probe_raised, wake, call, now, uptime, store, reader, stop_called,
                   flushes, last_paused, resampled>>

\* stop(), called from the tray thread or the main thread
Stop ==
    /\ ~stop_called
    /\ running' = FALSE
    /\ stop_called' = TRUE
    /\ UNCHANGED <<current_app, app_start_time, tracking_paused, lock, pc, ret,
                   window_info, probe_raised, wake, call, now, uptime, store, reader, flushes,
                   last_paused, resampled>>

\* the query without DESC: ORDER BY duration LIMIT n, the smallest rows first
RECURSIVE TopRows_Ascending(_, _, _)
TopRows_Ascending(table, keys, n) ==
    IF n = 0 \/ keys = {} THEN <<>>
    ELSE LET k == CHOOSE k \in keys : \A j \in keys : table[k] <= table[j]
         IN  <<[app_name |-> k[2], duration |-> table[k]]>>
                 \o TopRows_Ascending(table, keys \ {k}, n - 1)

\* ORDER BY duration DESC LIMIT n over the rows keys of table.  SQL leaves the
\* order of rows of equal duration open; SQLite derives it from the database
\* file, so the same rows come in the same order
RECURSIVE TopRows(_, _, _)
TopRows(table, keys, n) ==
    IF n = 0 \/ keys = {} THEN <<>>
    ELSE LET k == CHOOSE k \in keys : \A j \in keys : table[k] >= table[j]
         IN  <<[app_name |-> k[2], duration |-> table[k]]>>
                 \o TopRows(table, keys \ {k}, n - 1)

\* get_today_stats(), lines 101-109: the day's total
ReadTotal ==
    /\ pc["ui"] = "idle"
    /\ read_total' = [today |-> Day(now),
                      total_seconds |-> IF Day(now) \in DOMAIN sessions
                                        THEN sessions[Day(now)].total_seconds
                                        ELSE 0]
    /\ pc' = [pc EXCEPT !["ui"] = "read_apps"]
    /\ UNCHANGED <<engine, lock, ret, window_info, probe_raised, wake, call, now,
                   uptime, store, today_stats, weekly_stats, app_history,
                   stats_basis, stop_called, flushes, last_paused, resampled>>

\* get_today_stats(), lines 112-126: the day's top apps, and the return
ReadApps ==
    /\ pc["ui"] = "read_apps"
    /\ today_stats' = [total_seconds |-> read_total.total_seconds,
                       top_apps |-> TopRows(app_usage,
                                            DayRows(app_usage, read_total.today),
                                            TopLimit)]
    /\ read_total' = NoRead
    /\ pc' = [pc EXCEPT !["ui"] = "idle"]
    /\ UNCHANGED <<engine, lock, ret, window_info, probe_raised, wake, call, now,
                   uptime, store, weekly_stats, app_history, stats_basis,
                   stop_called, flushes, last_paused, resampled>>

\* ------------------------------------------------------------ the clock
Clock ==
    /\ now < MaxTime
    /\ now' = now + 1
    /\ uptime' = uptime + 1
    /\ last_paused' = IF tracking_paused THEN now ELSE last_paused
    /\ UNCHANGED <<engine, lock, pc, ret, window_info, probe_raised, wake, call, store,
                   reader, stop_called, flushes, resampled>>

\* the clock of the behaviours in which the presentation thread reads
ClockRead == now < MaxReadTime /\ Clock

\* the steps of the polling thread
PollNext ==
    \/ Start
    \/ Loop
    \/ Probe
    \/ TickWindow
    \/ TickUpdate
    \/ TickNoWindow
    \/ TickReset
    \/ Sleep
    \/ Final
    \/ FinalRelease

\* every step but those of the store and the clock
EngineNext ==
    \/ Start
    \/ Loop
    \/ Probe
    \/ TickWindow
    \/ TickUpdate
    \/ TickNoWindow
    \/ TickReset
    \/ Sleep
    \/ Final
    \/ FinalRelease
    \/ Pause
    \/ PauseReset
    \/ Resume
    \/ Stop

Next ==
    \/ EngineNext
    \/ Clock
    \/ RecordAppUsage("poll")
    \/ RecordAppUsage("ui")

\* the polling thread, pause/resume/stop and the clock
Spec == Init /\ [][Next]_vars

\* the same with the presentation thread calling get_today_stats(), which
\* sees the statements of record_app_usage one by one
NextRead ==
    \/ EngineNext
    \/ DbAppUsage("poll")
    \/ DbSessions("poll")
    \/ DbCommit("poll")
    \/ DbAppUsage("ui")
    \/ DbSessions("ui")
    \/ DbCommit("ui")
    \/ ReadTotal
    \/ ReadApps
    \/ ClockRead

SpecRead == Init /\ [][NextRead]_vars

\* ------------------------------------------- a wall clock that is set back
\* the wall clock is adjusted backwards (manual change, time synchronisation);
\* the monotonic clock, and with it time.sleep, is not affected
ClockBack ==
    /\ now > 0
    /\ \E t \in 0..(now - 1) : now' = t
    /\ UNCHANGED <<engine, lock, pc, ret, window_info, probe_raised, wake, call,
                   uptime, store, reader, stop_called, flushes, last_paused,
                   resampled>>

ClockSkew == uptime < MaxSkewTime /\ Clock

NextSkew ==
    \/ PollNext
    \/ Stop
    \/ ClockSkew
    \/ ClockBack
    \/ RecordAppUsage("poll")

\* the polling thread and stop() under a wall clock that can be set back
SpecSkew == Init /\ [][NextSkew]_vars

\* ------------------------------------------------- a store that can fail
\* the calls of record_app_usage that have raised
Failures == Cardinality({i \in DOMAIN flushes : flushes[i].failed})

\* where an exception raised under record_app_time takes the polling thread,
\* without the except clause of lines 148-150: it leaves start()
AfterRaise_Uncaught(back) == "raised"

\* where an exception raised under record_app_time takes the polling thread:
\* inside the loop's try it is caught at line 148 and the handler sleeps; the
\* final flush of lines 153-156 is outside any try, so it leaves start()
AfterRaise(back) ==
    IF back \in {"tick_update", "tick_reset"} THEN "sleep" ELSE "raised"

\* record_app_usage raises in the polling thread (sqlite3.Error): at the
\* first execute nothing has changed, at the second the per-app row is changed
\* in the connection, at the commit both rows are; nothing is committed, there
\* is no rollback.  The with block of the caller releases the engine lock and
\* the statements after the call are skipped.
RecordAppUsageRaises ==
    /\ pc["poll"] = "db_app_usage"
    /\ Failures < MaxFailures
    /\ \E at \in {"app_usage", "sessions", "commit"} :
           /\ app_usage' = IF at = "app_usage" THEN app_usage
                            ELSE UpsertAppUsage(app_usage, Day(now), call.app_name,
                                                call.duration_seconds)
           /\ sessions' = IF at = "commit"
                           THEN UpsertSession(sessions, Day(now), call.duration_seconds)
                           ELSE sessions
    /\ flushes' = [flushes EXCEPT ![Len(flushes)].failed = TRUE]
    /\ call' = NoCall
    /\ lock' = "free"
    /\ pc' = [pc EXCEPT !["poll"] = AfterRaise(ret["poll"])]
    /\ ret' = [ret EXCEPT !["poll"] = "none"]
    /\ wake' = IF AfterRaise(ret["poll"]) = "sleep"
               THEN uptime + poll_interval * TicksPerSecond ELSE wake
    /\ probe_raised' = FALSE
    /\ UNCHANGED <<engine, window_info, now, uptime, disk_app_usage,
                   disk_sessions, reader, stop_called, last_paused, resampled>>

NextFail ==
    \/ EngineNext
    \/ Clock
    \/ RecordAppUsage("poll")
    \/ RecordAppUsage("ui")
    \/ RecordAppUsageRaises

\* the engine over a store whose increments can fail in the polling thread
SpecFail == Init /\ [][NextFail]_vars

\* --------------------------------------------- system shells in front
Explorer_EXE == <<"E","x","p","l","o","r","e","r",".","E","X","E">>
EXPLORER     == <<"E","X","P","L","O","R","E","R">>
dwm_exe      == <<"d","w","m",".","e","x","e">>
csrss_EXE    == <<"c","s","r","s","s",".","E","X","E">>
Winlogon_exe == <<"W","i","n","l","o","g","o","n",".","e","x","e">>
lsass        == <<"l","s","a","s","s">>

\* foreground windows of the system shells, under the names Windows reports
\* for them: either letter case, with and without the executable suffix, and
\* as the title of a window whose process cannot be opened
ShellForeground ==
    {[hwnd |-> TRUE, raises |-> FALSE, proc |-> p, title |-> <<"T">>] :
        p \in {Explorer_EXE, EXPLORER, dwm_exe, csrss_EXE, Winlogon_exe, lsass}}
    \cup {[hwnd |-> TRUE, raises |-> FALSE, proc |-> None, title |-> lsass]}

\* window_info = self.get_active_window_info() with a system shell in front
ProbeShell ==
    /\ pc["poll"] = "probe"
    /\ \E fg \in ShellForeground :
           /\ window_info' = get_active_window_info(fg)
           /\ probe_raised' = fg.raises
    /\ pc' = [pc EXCEPT !["poll"] = "tick"]
    /\ UNCHANGED <<engine, lock, ret, wake, call, now, uptime, store, reader,
                   stop_called, flushes, last_paused, resampled>>

NextShell ==
    \/ PollNext
    \/ ProbeShell
    \/ Stop
    \/ Clock
    \/ RecordAppUsage("poll")

\* the polling thread and stop() with applications and system shells in front
SpecShell == Init /\ [][NextShell]_vars

\* ------------------------------------------------- a scripted scenario
\* the scenario, t seconds after the engine was started: chrome.exe is in
\* front for the ticks at 0 s and 2 s, code.exe for the tick at 4 s, then no
\* window; stop() is called at 8 s
ScenarioForeground(t) ==
    IF t < 4 * TicksPerSecond
    THEN [hwnd |-> TRUE, raises |-> FALSE, proc |-> chrome_exe, title |-> <<"T">>]
    ELSE IF t < 6 * TicksPerSecond
    THEN [hwnd |-> TRUE, raises |-> FALSE, proc |-> code_exe, title |-> <<"T">>]
    ELSE [hwnd |-> FALSE, raises |-> FALSE, proc |-> None, title |-> <<>>]
ScenarioStopAt == 8 * TicksPerSecond
\* the scenario takes place within one calendar day
ScenarioDay == Day(0)

InitScenario == \E t0 \in 0..MaxScenarioOrigin : InitAt(t0)

ProbeScenario ==
    /\ pc["poll"] = "probe"
    /\ window_info' = get_active_window_info(ScenarioForeground(uptime))
    /\ probe_raised' = ScenarioForeground(uptime).raises
    /\ pc' = [pc EXCEPT !["poll"] = "tick"]
    /\ UNCHANGED <<engine, lock, ret, wake, call, now, uptime, store, reader,
                   stop_called, flushes, last_paused, resampled>>

StopScenario == uptime = ScenarioStopAt /\ Stop

\* the ticks are on time: the clock advances while the polling thread is in
\* its sleep (or has returned), and reaches 8 s only to have stop() called
ClockScenario ==
    /\ \/ pc["poll"] = "sleep" /\ uptime < wake
       \/ pc["poll"] = "done"
    /\ uptime < ScenarioStopAt \/ stop_called
    /\ uptime < ScenarioStopAt + poll_interval * TicksPerSecond
    /\ now' = now + 1
    /\ uptime' = uptime + 1
    /\ UNCHANGED <<engine, lock, pc, ret, window_info, probe_raised, wake, call,
                   store, reader, stop_called, flushes, last_paused, resampled>>

\* the final flush finds no attributed app: start() returns from Final
NextScenario ==
    \/ Start
    \/ Loop
    \/ ProbeScenario
    \/ TickWindow
    \/ TickUpdate
    \/ TickNoWindow
    \/ TickReset
    \/ Sleep
    \/ Final
    \/ StopScenario
    \/ ClockScenario
    \/ RecordAppUsageOn("poll", ScenarioDay)

SpecScenario == InitScenario /\ [][NextScenario]_vars

\* ------------------------------------------------- the normalizer's inputs
\* names a probe can hand to the engine (process names, and window titles of
\* processes that cannot be opened): aliased and unknown names, several
\* tokens, either letter case, with the suffix text at the end or inside
NameStems ==
    {<<"c","h","r","o","m","e">>,
     <<"C","H","R","O","M","E">>,
     <<"c","o","d","e"," ","c","h","r","o","m","e">>,
     <<"v","s","c","o","d","e">>,
     <<"u","n","k","n","o","w","n","a","p","p","1","2","3">>,
     <<"m","y"," ","a","p","p">>,
     <<"M","y"," "," ","A","P","P">>,
     <<"a",".","e","x","e"," ","b">>,
     <<"x",".","E","X","E","y">>,
     <<"m","s","e","d","g","e">>,
     <<"S","t","e","a","m">>,
     <<"n","o","t","e","s">>}
NameSuffixes == {<<>>, DotExe, DotEXE, <<".","E","x","e">>}
NameInputs == {st \o su : st \in NameStems, su \in NameSuffixes}

\* the engine has attributed one of the names for a poll interval, stop() has
\* been called and the loop has ended
InitNames ==
    /\ running = FALSE
    /\ current_app \in NameInputs
    /\ app_start_time = 0
    /\ tracking_paused = FALSE
    /\ lock = "free"
    /\ pc = [poll |-> "final", ui |-> "idle"]
    /\ ret = [poll |-> "none", ui |-> "none"]
    /\ window_info = current_app
    /\ probe_raised = FALSE
    /\ wake = poll_interval * TicksPerSecond
    /\ call = NoCall
    /\ now = poll_interval * TicksPerSecond
    /\ uptime = poll_interval * TicksPerSecond
    /\ app_usage = EmptyTable
    /\ sessions = EmptyTable
    /\ disk_app_usage = EmptyTable
    /\ disk_sessions = EmptyTable
    /\ read_total = NoRead
    /\ today_stats = NoStats
    /\ weekly_stats = NoWeekly
    /\ app_history = NoHistory
    /\ stats_basis = NoBasis
    /\ stop_called = TRUE
    /\ flushes = <<>>
    /\ last_paused = -1
    /\ resampled = FALSE

\* the final flush: record_app_time normalizes the name and stores it
NextNames ==
    \/ Final
    \/ RecordAppUsage("poll")
    \/ FinalRelease

SpecNames == InitNames /\ [][NextNames]_vars

\* ---------------------------------------------------- the store's queries
\* canonical names of the rows of a database file written by earlier runs
AppN(i) == <<"A","p","p",LowerAlpha[i]>>

\* a database file with n apps on each of the dates days, of equal durations
\* or of durations that differ by app and date, and its daily summaries as
\* record_app_usage keeps them
StoredUsage(days, n, equal) ==
    [k \in {<<d, AppN(i)>> : d \in days, i \in 1..n} |->
        IF equal THEN 1
        ELSE k[1] + (CHOOSE i \in 1..n : AppN(i) = k[2])]
StoredSummary(days, n, equal) ==
    [d \in days |-> [total_seconds |-> DaySum(StoredUsage(days, n, equal), d),
                     app_count |-> 1]]

QueryDaySets == {{}, {0}, {1, 3}, {2, MaxQueryDay}, 0..MaxQueryDay}
QueryAppCounts == {1, 2, TopLimit + 2}

\* the program runs on the date today over a database file of earlier runs;
\* chrome.exe has been attributed since the start of the day, stop() has been
\* called and the loop has ended, so that one increment is still to come
InitQuery ==
    \E days \in QueryDaySets, n \in QueryAppCounts, equal \in BOOLEAN,
       today \in 0..MaxQueryDay :
        /\ \A d \in days : d <= today
        /\ running = FALSE
        /\ current_app = chrome_exe
        /\ app_start_time = today * DayLen
        /\ tracking_paused = FALSE
        /\ lock = "free"
        /\ pc = [poll |-> "final", ui |-> "idle"]
        /\ ret = [poll |-> "none", ui |-> "none"]
        /\ window_info = chrome_exe
        /\ probe_raised = FALSE
        /\ wake = 0
        /\ call = NoCall
        /\ now = today * DayLen + TicksPerSecond
        /\ uptime = TicksPerSecond
        /\ app_usage = StoredUsage(days, n, equal)
        /\ sessions = StoredSummary(days, n, equal)
        /\ disk_app_usage = app_usage
        /\ disk_sessions = sessions
        /\ read_total = NoRead
        /\ today_stats = NoStats
        /\ weekly_stats = NoWeekly
        /\ app_history = NoHistory
        /\ stats_basis = NoBasis
        /\ stop_called = TRUE
        /\ flushes = <<>>
        /\ last_paused = -1
        /\ resampled = FALSE

\* a get_today_stats() that creates the summary row of a day that has none
GetTodayStats_Touches ==
    /\ pc["ui"] = "idle"
    /\ sessions' = UpsertSession(sessions, Day(now), 0)
    /\ today_stats' =
           [total_seconds |-> IF Day(now) \in DOMAIN sessions
                              THEN sessions[Day(now)].total_seconds ELSE 0,
            top_apps |-> TopRows(app_usage, DayRows(app_usage, Day(now)), TopLimit)]
    /\ stats_basis' = <<Day(now), app_usage, sessions>>
    /\ UNCHANGED <<engine, lock, pc, ret, window_info, probe_raised, wake, call,
                   now, uptime, app_usage, disk_app_usage, disk_sessions,
                   read_total, weekly_stats, app_history,
                   stop_called, flushes, last_paused, resampled>>

\* get_today_stats() as one step, lines 101-126
GetTodayStats ==
    /\ pc["ui"] = "idle"
    /\ today_stats' =
           [total_seconds |-> IF Day(now) \in DOMAIN sessions
                              THEN sessions[Day(now)].total_seconds ELSE 0,
            top_apps |-> TopRows(app_usage, DayRows(app_usage, Day(now)), TopLimit)]
    /\ stats_basis' = <<Day(now), app_usage, sessions>>
    /\ UNCHANGED <<engine, lock, pc, ret, window_info, probe_raised, wake, call,
                   now, uptime, store, read_total, weekly_stats, app_history,
                   stop_called, flushes, last_paused, resampled>>

\* the dates of a set in ascending order (ORDER BY date ASC)
RECURSIVE Ascending(_)
Ascending(days) ==
    IF days = {} THEN <<>>
    ELSE LET d == CHOOSE d \in days : \A e \in days : d <= e
         IN  <<d>> \o Ascending(days \ {d})

\* SELECT app_name, SUM(duration_seconds) ... WHERE date >= first GROUP BY
\* app_name: one row per app name, keyed like a row of app_usage
SumByApp(table, first) ==
    [k \in {<<first, r[2]>> : r \in {r \in DOMAIN table : r[1] >= first}} |->
        SumRows(table, {r \in DOMAIN table : r[1] >= first /\ r[2] = k[2]})]

\* get_weekly_stats() as one step, lines 130-159; date('now', '-7 days') is
\* the date seven days before today (the local date is the UTC date)
GetWeeklyStats ==
    /\ pc["ui"] = "idle"
    /\ weekly_stats' =
           LET first == Day(now) - 7
               dates == Ascending({d \in DOMAIN sessions : d >= first})
               week  == SumByApp(app_usage, first)
           IN  [today |-> Day(now),
                daily_stats |-> [i \in DOMAIN dates |->
                                   [date |-> dates[i],
                                    total_seconds |-> sessions[dates[i]].total_seconds]],
                top_apps |-> TopRows(week, DOMAIN week, TopLimit)]
    /\ UNCHANGED <<engine, lock, pc, ret, window_info, probe_raised, wake, call,
                   now, uptime, store, read_total, today_stats, app_history,
                   stats_basis, stop_called, flushes, last_paused, resampled>>

\* get_app_history(app_name, days) as one step, lines 163-173
GetAppHistory ==
    /\ pc["ui"] = "idle"
    /\ \E app_name \in {AppN(1), mappings[1][2]}, days \in {2, 30} :
           app_history' =
               LET dates == Ascending({d \in 0..Day(now) :
                                         /\ <<d, app_name>> \in DOMAIN app_usage
                                         /\ d >= Day(now) - days})
               IN  [i \in DOMAIN dates |->
                       [date |-> dates[i],
                        duration |-> app_usage[<<dates[i], app_name>>]]]
    /\ UNCHANGED <<engine, lock, pc, ret, window_info, probe_raised, wake, call,
                   now, uptime, store, read_total, today_stats, weekly_stats,
                   stats_basis, stop_called, flushes, last_paused, resampled>>

NextQuery ==
    \/ Final
    \/ RecordAppUsage("poll")
    \/ FinalRelease
    \/ GetTodayStats
    \/ GetWeeklyStats
    \/ GetAppHistory

\* the queries of the presentation thread around one increment
SpecQuery == InitQuery /\ [][NextQuery]_vars

\* ------------------------------------- days longer than a poll interval
\* a calendar day of three poll intervals, in clock units
LongDayLen == 3 * poll_interval * TicksPerSecond
LongDay(t) == t \div LongDayLen

\* the program is started one poll interval and one second before midnight
LongDayOrigin == LongDayLen - (poll_interval + 1) * TicksPerSecond
InitLongDay == InitAt(LongDayOrigin)

\* the clock over the two poll intervals after the start
ClockLongDay ==
    /\ now < LongDayOrigin + 2 * poll_interval * TicksPerSecond
    /\ now' = now + 1
    /\ uptime' = uptime + 1
    /\ last_paused' = IF tracking_paused THEN now ELSE last_paused
    /\ UNCHANGED <<engine, lock, pc, ret, window_info, probe_raised, wake, call, store,
                   reader, stop_called, flushes, resampled>>

\* record_app_usage with date.today() taken from the long days
RecordAppUsageLongDay == RecordAppUsageOn("poll", LongDay(now))

NextLongDay ==
    \/ PollNext
    \/ Stop
    \/ ClockLongDay
    \/ RecordAppUsageLongDay

\* the polling thread around one midnight of a day of several poll intervals
SpecLongDay == InitLongDay /\ [][NextLongDay]_vars

\* ------------------------------------------------ quitting from the tray
\* quit_app() after its tracker_service.stop(): icon.stop(), gui.root.quit()
\* and sys.exit(0) end the main loop and main() returns; the interpreter ends
\* the process without waiting for the daemon threads, wherever they are
Exit ==
    /\ stop_called
    /\ pc["ui"] # "killed"
    /\ pc' = [poll |-> "killed", ui |-> "killed"]
    /\ UNCHANGED <<engine, lock, ret, window_info, probe_raised, wake, call, now,
                   uptime, store, reader, stop_called, flushes, last_paused,
                   resampled>>

\* the clock as long as the process lives
ClockQuit == pc["ui"] # "killed" /\ Clock

NextQuit ==
    \/ PollNext
    \/ Stop
    \/ ClockQuit
    \/ RecordAppUsage("poll")
    \/ Exit

\* the polling thread and the quit of the tray menu
SpecQuit == Init /\ [][NextQuit]_vars

\* ------------------------------------------------------------ histories
LastFlush == flushes[Len(flushes)]

\* the clock units of the interval [start, end)
Units(f) == {u \in 0..(MaxTime - 1) : f.start <= u /\ u < f.end}

\* whole seconds handed to the store for the apps whose canonical name is name
RECURSIVE CreditedTo(_, _)
CreditedTo(log, name) ==
    IF log = <<>> THEN 0
    ELSE (IF normalize_app_name(Head(log).app) = name THEN Head(log).seconds ELSE 0)
         + CreditedTo(Tail(log), name)

RECURSIVE CreditedSeconds(_)
CreditedSeconds(log) ==
    IF log = <<>> THEN 0 ELSE Head(log).seconds + CreditedSeconds(Tail(log))

\* seconds stored for one canonical name, over all dates
NameTotal(table, name) == SumRows(table, {k \in DOMAIN table : k[2] = name})

\* the apps a probe can return and their canonical names
Apps == {get_active_window_info(fg) : fg \in Foreground} \ {None}
CanonicalNames == {normalize_app_name(a) : a \in Apps}

\* the seconds of a flush are the whole seconds of its interval
WholeSeconds(seconds, start, end) ==
    /\ seconds * TicksPerSecond <= end - start
    /\ end - start < (seconds + 1) * TicksPerSecond

\* ---------------------------------------------------------------- claims
\* C1: no wall-clock time between pause() returning and the next resume() is
\* ever added to an app's counter: no interval handed to the store contains a
\* clock unit that elapsed while tracking was paused.
C1_PausedTimeNeverCredited ==
    \A i \in DOMAIN flushes : ~flushes[i].paused

\* C2: the seconds credited over all apps never exceed the wall-clock time
\* that was not paused, and the flushed intervals are pairwise non-overlapping
\* (no interval is credited twice).
C2_NoDoubleCounting ==
    /\ CreditedSeconds(flushes) * TicksPerSecond <= now
    /\ \A i \in DOMAIN flushes : ~flushes[i].paused
    /\ \A i, j \in DOMAIN flushes :
           i < j => Units(flushes[i]) \cap Units(flushes[j]) = {}


\* C3: a tick that samples B while A is attributed since start credits exactly
\* the whole seconds of [start, now) to A and nothing to any other app, B's
\* attribution starts at the time of that tick, and no later flush reaches back
\* before the switch.
C3_SwitchCreditsPrevious ==
    /\ [](\A i, j \in DOMAIN flushes :
            (i < j /\ flushes[i].by = "switch") => flushes[j].start >= flushes[i].end)
    /\ [][(TickWindow /\ pc'["poll"] = "db_app_usage") =>
            /\ current_app # window_info
            /\ call'.app_name = normalize_app_name(current_app)
            /\ WholeSeconds(call'.duration_seconds, app_start_time, now)]_vars
    /\ [][(RecordAppUsage("poll") /\ ret["poll"] = "tick_update") =>
            \A n \in CanonicalNames :
                NameTotal(app_usage', n) - NameTotal(app_usage, n)
                  = IF n = normalize_app_name(current_app)
                    THEN call.duration_seconds ELSE 0]_vars
    /\ [][TickUpdate => (current_app' = window_info /\ app_start_time' = now)]_vars

\* C3 witness: a switch was flushed and the new app was credited later
C3_Witness ==
    /\ call = NoCall
    /\ \E i, j \in DOMAIN flushes :
           /\ i < j
           /\ flushes[i].by = "switch"
           /\ flushes[j].app # flushes[i].app
           /\ flushes[j].start >= flushes[i].end

\* C4: a tick that samples the attributed app again writes nothing and keeps
\* the start time; the app's interval is flushed once, by the tick that finds
\* another app or no window or by the final flush, from the time of the tick
\* that first saw the app up to the flush.
C4_SameAppAccrues ==
    /\ [][(TickWindow /\ window_info = current_app /\ app_start_time # NoTime) =>
            UNCHANGED <<current_app, app_start_time, app_usage, sessions,
                        disk_app_usage, disk_sessions, flushes, call>>]_vars
    /\ [][((TickWindow \/ TickUpdate) /\ current_app' # current_app) =>
            app_start_time' = now]_vars
    /\ [][(Len(flushes') = Len(flushes) + 1 /\ pc["poll"] \in {"tick", "final"}
             /\ pc'["poll"] = "db_app_usage") =>
            /\ flushes'[Len(flushes')].app = current_app
            /\ flushes'[Len(flushes')].start = app_start_time
            /\ flushes'[Len(flushes')].end = now
            /\ WholeSeconds(flushes'[Len(flushes')].seconds, app_start_time, now)]_vars
    /\ [](\A i, j \in DOMAIN flushes :
            (i # j /\ flushes[i].by \in {"switch", "none"}) =>
                Units(flushes[i]) \cap Units(flushes[j]) = {})
    /\ [](Cardinality({i \in DOMAIN flushes : flushes[i].by = "final"}) <= 1)

\* C4 witness: an app stayed attributed over a tick that sampled it again and
\* was then flushed by a tick or by the final flush
C4_Witness ==
    /\ call = NoCall
    /\ \E i \in DOMAIN flushes :
           /\ flushes[i].by \in {"switch", "none", "final"}
           /\ flushes[i].resampled
           /\ flushes[i].end - flushes[i].start >= 2 * poll_interval * TicksPerSecond
           /\ NameTotal(disk_app_usage, normalize_app_name(flushes[i].app))
                >= 2 * poll_interval

\* C5: pause() while an app is attributed hands [start, now) to the store and
\* commits it before it returns, and returns with tracking paused and no
\* attributed app.
C5_PauseFlushesAtOnce ==
    /\ [][(Pause /\ Truthy(current_app) /\ app_start_time # NoTime
             /\ FlushSeconds(app_start_time, now) > 0) =>
            /\ pc'["ui"] = "db_app_usage"
            /\ call'.app_name = normalize_app_name(current_app)
            /\ WholeSeconds(call'.duration_seconds, app_start_time, now)
            /\ flushes'[Len(flushes')].start = app_start_time
            /\ flushes'[Len(flushes')].end = now]_vars
    /\ [](pc["ui"] = "pause_reset" =>
            /\ disk_app_usage = app_usage
            /\ disk_sessions = sessions
            /\ \A n \in CanonicalNames :
                   NameTotal(disk_app_usage, n) = CreditedTo(flushes, n))
    /\ [][((PauseReset \/ Pause) /\ pc'["ui"] = "idle"
             /\ Truthy(current_app) /\ app_start_time # NoTime) =>
            /\ tracking_paused'
            /\ current_app' = None
            /\ app_start_time' = NoTime]_vars

\* C5 witness: pause() has returned after flushing an attributed app
C5_Witness ==
    /\ pc["ui"] = "idle"
    /\ tracking_paused
    /\ current_app = None
    /\ flushes # <<>>
    /\ LastFlush.by = "pause"
    /\ ~LastFlush.paused
    /\ NameTotal(disk_app_usage, normalize_app_name(LastFlush.app)) >= LastFlush.seconds

\* C6: after resume() the engine is Idle, so that no interval credited after
\* the resume was opened during the paused gap.
C6_ResumeStartsIdle ==
    [][(Resume /\ tracking_paused) => ~Truthy(current_app')]_vars

\* C7: once stop() has been called, the next evaluation of the loop condition
\* ends the loop: no further tick begins.
C7_StopEndsLoop ==
    [][(Loop /\ stop_called) => pc'["poll"] = "final"]_vars

\* C8: the interval open at stop is credited once, by the final flush, and
\* nothing is handed to the store after it.
C8_FinalFlushIsLast ==
    \A i \in DOMAIN flushes : flushes[i].by = "final" => i = Len(flushes)

\* C9: for every date, the day summary's total_seconds is the sum of the
\* duration_seconds of the date's app usage rows (committed, and as the
\* connection sees them between calls).
C9_DayTotalIsSum ==
    \A d \in 0..Day(MaxTime) :
        /\ IF d \in DOMAIN disk_sessions
           THEN disk_sessions[d].total_seconds = DaySum(disk_app_usage, d)
           ELSE DayRows(disk_app_usage, d) = {}
        /\ call = NoCall =>
              IF d \in DOMAIN sessions
              THEN sessions[d].total_seconds = DaySum(app_usage, d)
              ELSE DayRows(app_usage, d) = {}

\* C9 witness: a date with two apps and several increments
C9_Witness ==
    \E d \in DOMAIN disk_sessions :
        /\ Cardinality(DayRows(disk_app_usage, d)) >= 2
        /\ disk_sessions[d].total_seconds >= 3
        /\ Len(flushes) >= 2

RECURSIVE SumDurations(_)
SumDurations(top) ==
    IF top = <<>> THEN 0 ELSE Head(top).duration + SumDurations(Tail(top))

\* C10: a get_today_stats() that runs while the polling thread is inside
\* record_app_usage returns a total_seconds equal to the sum of the returned
\* durations (the day has fewer than TopLimit apps).
C10_ReaderSeesWholeIncrements ==
    (today_stats # NoStats /\ Len(today_stats.top_apps) < TopLimit) =>
        today_stats.total_seconds = SumDurations(today_stats.top_apps)

\* the stored value of a row, 0 when the row does not exist
Stored(table, k) == IF k \in DOMAIN table THEN table[k] ELSE 0

\* C11: for every (date, app) the stored duration_seconds never decreases and
\* is never overwritten: every change of a row adds the whole, strictly
\* positive duration of the call in progress to the previous value, also when
\* the wall clock read at flush time is earlier than the attribution start.
C11_DurationOnlyGrows ==
    /\ [](\A t \in {"poll", "ui"} :
            pc[t] = "db_app_usage" => call.duration_seconds \in Nat \ {0})
    /\ [][\A k \in DOMAIN app_usage :
            k \in DOMAIN app_usage' /\ app_usage'[k] >= app_usage[k]]_vars
    /\ [][\A k \in DOMAIN app_usage' :
            app_usage'[k] # Stored(app_usage, k) =>
                /\ app_usage'[k] = Stored(app_usage, k) + call.duration_seconds
                /\ call.duration_seconds \in Nat \ {0}]_vars
    /\ [][\A k \in DOMAIN disk_app_usage :
            k \in DOMAIN disk_app_usage'
              /\ disk_app_usage'[k] >= disk_app_usage[k]]_vars

\* C11 witness: a tick is about to flush an attributed app at a wall clock
\* reading earlier than the attribution start, with rows already stored
C11_Witness ==
    /\ pc["poll"] = "tick"
    /\ lock = "free"
    /\ Truthy(current_app)
    /\ current_app # window_info
    /\ app_start_time # NoTime
    /\ now < app_start_time
    /\ FlushSeconds(app_start_time, now) < 0
    /\ \E k \in DOMAIN disk_app_usage : disk_app_usage[k] >= 2

\* C12: a failing window probe is caught within its tick and handled like a
\* no-window sample: the tick sees None; if an app was attributed its interval
\* [start, now) is flushed and the engine becomes Idle, otherwise nothing
\* changes; the loop keeps running (the tick ends in its sleep).
C12_FailedProbeIsNoWindow ==
    /\ []((probe_raised /\ pc["poll"] = "tick") => window_info = None)
    /\ [][(TickNoWindow /\ probe_raised) =>
            IF Truthy(current_app) /\ app_start_time # NoTime
            THEN IF FlushSeconds(app_start_time, now) > 0
                 THEN /\ pc'["poll"] = "db_app_usage"
                      /\ ret'["poll"] = "tick_reset"
                      /\ call'.app_name = normalize_app_name(current_app)
                      /\ WholeSeconds(call'.duration_seconds, app_start_time, now)
                      /\ UNCHANGED <<engine, store>>
                 ELSE /\ current_app' = None
                      /\ app_start_time' = NoTime
                      /\ pc'["poll"] = "sleep"
                      /\ UNCHANGED <<running, tracking_paused, store, flushes>>
            ELSE /\ pc'["poll"] = "sleep"
                 /\ UNCHANGED <<engine, store, flushes>>]_vars
    /\ [][TickReset =>
            /\ current_app' = None
            /\ app_start_time' = NoTime
            /\ lock' = "free"
            /\ pc'["poll"] = "sleep"
            /\ UNCHANGED <<running, tracking_paused, store>>]_vars

\* C12 witness: a tick whose probe failed flushed the attributed app, and the
\* engine is Idle in the sleep that ends the tick
C12_Witness ==
    /\ pc["poll"] = "sleep"
    /\ lock = "free"
    /\ current_app = None
    /\ app_start_time = NoTime
    /\ flushes # <<>>
    /\ LastFlush.by = "none"
    /\ LastFlush.raised
    /\ NameTotal(disk_app_usage, normalize_app_name(LastFlush.app)) >= LastFlush.seconds

\* C13: an exception raised in a tick releases the engine lock and does not
\* end the loop: the tick ends in the handler's sleep with running untouched,
\* and the polling thread leaves the loop only after stop() has been called.
C13_TickFailureKeepsLoop ==
    /\ [][(RecordAppUsageRaises
             /\ ret["poll"] \in {"tick_update", "tick_reset"}) =>
            /\ lock' = "free"
            /\ pc'["poll"] = "sleep"
            /\ running' = running]_vars
    /\ [](pc["poll"] = "sleep" => lock # "poll")
    /\ [](pc["poll"] \in {"final", "final_release", "done", "raised"} => stop_called)
    /\ []((pc["poll"] = "db_app_usage" /\ ret["poll"] = "final_release") => stop_called)

\* C13 witness: after a store failure in a tick, a later tick has run and
\* flushed, and stop() has not been called
C13_Witness ==
    /\ ~stop_called
    /\ running
    /\ pc["poll"] = "sleep"
    /\ lock = "free"
    /\ \E i, j \in DOMAIN flushes :
           /\ i < j
           /\ flushes[i].failed
           /\ flushes[i].by \in {"switch", "none"}
           /\ flushes[j].by \in {"switch", "none"}
           /\ ~flushes[j].failed
           /\ flushes[j].end > flushes[i].end

\* C14: when a store increment fails during a tick's flush, the interval of
\* that flush is not credited by any later flush.
C14_FailedIntervalIsLost ==
    \A i, j \in DOMAIN flushes :
        (/\ i < j
         /\ flushes[i].failed
         /\ flushes[i].by \in {"switch", "none"}
         /\ ~flushes[j].failed
         /\ (j < Len(flushes) \/ call = NoCall)) =>
            Units(flushes[i]) \cap Units(flushes[j]) = {}

\* C15: a failure of the final flush is caught: start() is not left by an
\* exception.
C15_FinalFailureIsCaught ==
    pc["poll"] # "raised"

\* C16: a probed process whose normalized name is a denylisted system-shell
\* name, in any letter case, is treated as no window: no seconds are credited
\* to it, so no committed row of the store carries such a name.
C16_ShellNeverCredited ==
    \A k \in DOMAIN disk_app_usage : Lower(k[2]) \notin system_processes

GoogleChrome == <<"G","o","o","g","l","e"," ","C","h","r","o","m","e">>
VisualStudioCode ==
    <<"V","i","s","u","a","l"," ","S","t","u","d","i","o"," ","C","o","d","e">>

\* C17: for the ticks t=0s chrome.exe, t=2s chrome.exe, t=4s code.exe, t=6s no
\* window and stop() at t=8s, the store holds exactly Google Chrome = 4 s and
\* Visual Studio Code = 2 s and a day total of 6 s from the tick at 6 s on:
\* when stop() is called, and unchanged when start() has returned.
C17_ScenarioTotals ==
    (stop_called \/ pc["poll"] = "done" \/ uptime > 6 * TicksPerSecond) =>
        /\ disk_app_usage = (<<ScenarioDay, GoogleChrome>> :> 4)
                               @@ (<<ScenarioDay, VisualStudioCode>> :> 2)
        /\ disk_sessions = (ScenarioDay :> [total_seconds |-> 6, app_count |-> 1])
        /\ app_usage = disk_app_usage
        /\ sessions = disk_sessions
        /\ Len(flushes) = 2

\* C17 witness: the scenario has run to its end, start() has returned
C17_Witness ==
    /\ stop_called
    /\ pc["poll"] = "done"
    /\ uptime >= ScenarioStopAt
    /\ Len(flushes) = 2
    /\ DaySum(disk_app_usage, ScenarioDay) = 6

\* the canonical name of the first entry of the alias table, from entry i on,
\* whose key is a substring of lower; None when there is none
RECURSIVE FirstAlias(_, _)
FirstAlias(lower, i) ==
    IF i > Len(mappings) THEN None
    ELSE IF Contains(lower, mappings[i][1]) THEN mappings[i][2]
    ELSE FirstAlias(lower, i + 1)

\* s with its whitespace-separated tokens separated by single spaces
RECURSIVE Squeeze(_)
Squeeze(s) ==
    IF s = <<>> THEN <<>>
    ELSE IF IsSpace(Head(s)) THEN Squeeze(Tail(s))
    ELSE LET rest == Squeeze(Tail(s))
         IN  IF Len(s) >= 2 /\ IsSpace(s[2]) /\ rest # <<>>
             THEN <<Head(s), " ">> \o rest
             ELSE <<Head(s)>> \o rest

\* every token with its first character in upper case and the others in lower
TokenCase(s) ==
    [i \in DOMAIN s |-> IF i = 1 \/ IsSpace(s[i - 1]) THEN UpperCh(s[i])
                         ELSE LowerCh(s[i])]

\* the name given to a suffix-stripped input: the first alias in table order
\* whose key it contains, else its tokens capitalized
NamedAs(stripped) ==
    IF FirstAlias(Lower(stripped), 1) # None
    THEN FirstAlias(Lower(stripped), 1)
    ELSE TokenCase(Squeeze(stripped))

\* the suffix-stripping step of lines 75-76
Stripped(app_name) == Remove(Remove(app_name, DotExe), DotEXE)

\* app_name without a trailing executable suffix of any letter case
StripSuffix(app_name) ==
    IF Len(app_name) >= 4
         /\ Lower(SubSeq(app_name, Len(app_name) - 3, Len(app_name))) = DotExe
    THEN SubSeq(app_name, 1, Len(app_name) - 4)
    ELSE app_name

CHROME_EXE == <<"C","H","R","O","M","E",".","E","X","E">>
unknownapp123 == <<"u","n","k","n","o","w","n","a","p","p","1","2","3">>

\* C18: normalize_app_name returns the canonical name of the first alias in
\* table order whose key is a substring of the lowercased suffix-stripped
\* input, and otherwise the stripped input with each whitespace-separated
\* token capitalized; "CHROME.EXE" gives "Google Chrome" and "unknownapp123"
\* gives "Unknownapp123".  The name is the one handed to the store.
C18_FirstAliasOrCapitalized ==
    /\ pc["poll"] \in {"db_app_usage", "final_release"} =>
           /\ Len(flushes) = 1
           /\ LastFlush.app = current_app
    /\ pc["poll"] = "db_app_usage" =>
           /\ call.app_name = NamedAs(Stripped(current_app))
           /\ current_app = CHROME_EXE => call.app_name = GoogleChrome
           /\ current_app = unknownapp123 =>
                  call.app_name = <<"U">> \o Tail(unknownapp123)
    /\ pc["poll"] = "final_release" =>
           DOMAIN disk_app_usage = {<<Day(now), NamedAs(Stripped(current_app))>>}

\* C18 witness: a name with two aliases has been stored under the alias that
\* comes first in the table, not the one that comes first in the name
C18_Witness ==
    /\ pc["poll"] = "done"
    /\ current_app = <<"c","o","d","e"," ","c","h","r","o","m","e",".","e","x","e">>
    /\ DOMAIN disk_app_usage = {<<Day(now), GoogleChrome>>}

\* C19: normalize_app_name removes an executable suffix only at the end of the
\* name and in every letter case, and leaves the suffix text elsewhere in the
\* name intact: the name handed to the store is the name given to the input
\* without its trailing suffix.
C19_TrailingSuffixAnyCase ==
    pc["poll"] = "db_app_usage" => call.app_name = NamedAs(StripSuffix(current_app))

\* C20: every flush credits its whole duration to the calendar date current
\* when the store is incremented: the rows and the summary of that date grow
\* by the duration, those of every other date, the date of the interval's
\* start included, do not change.
C20_CreditedToFlushDate ==
    [][\A t \in {"poll", "ui"} :
          (pc[t] = "db_app_usage" /\ pc'[t] # "db_app_usage") =>
              \A d \in 0..Day(MaxTime) :
                  /\ DaySum(disk_app_usage', d) - DaySum(disk_app_usage, d)
                       = IF d = Day(now) THEN call.duration_seconds ELSE 0
                  /\ (IF d \in DOMAIN disk_sessions'
                      THEN disk_sessions'[d].total_seconds ELSE 0)
                       - (IF d \in DOMAIN disk_sessions
                          THEN disk_sessions[d].total_seconds ELSE 0)
                       = IF d = Day(now) THEN call.duration_seconds ELSE 0]_vars

\* C20 witness: an interval that began on one date was flushed on a later
\* date and is stored, whole, under the later date only
C20_Witness ==
    /\ call = NoCall
    /\ Len(flushes) = 1
    /\ Day(LastFlush.start) < Day(LastFlush.end)
    /\ LastFlush.end - LastFlush.start > DayLen
    /\ DayRows(disk_app_usage, Day(LastFlush.start)) = {}
    /\ DaySum(disk_app_usage, Day(LastFlush.end)) = LastFlush.seconds

\* C21: get_weekly_stats() returns one daily entry for each of the trailing 7
\* calendar days, in ascending date order, with a total of 0 for a day without
\* rows, and top apps aggregated over exactly those 7 days.
C21_WeeklyCoversSevenDays ==
    weekly_stats # NoWeekly =>
        /\ Len(weekly_stats.daily_stats) = 7
        /\ \A i \in 1..7 :
               /\ i \in DOMAIN weekly_stats.daily_stats
               /\ weekly_stats.daily_stats[i].date = weekly_stats.today - 7 + i
        /\ \A i \in DOMAIN weekly_stats.top_apps :
               weekly_stats.top_apps[i].duration <=
                   SumRows(app_usage,
                           {r \in DOMAIN app_usage :
                              /\ r[2] = weekly_stats.top_apps[i].app_name
                              /\ r[1] > weekly_stats.today - 7})

\* the rows of the queried date in the store as get_today_stats() found it
QueriedRows == DayRows(stats_basis[2], stats_basis[1])

\* C22: get_today_stats() returns the total seconds of today's date and at
\* most 10 apps, all of today's date, in descending order of duration; every
\* app left out has a duration no larger than any returned app; a day without
\* rows yields a total of 0 and an empty list.
C22_TodayStatsTopTen ==
    (today_stats # NoStats /\ stats_basis # NoBasis) =>
        LET top == today_stats.top_apps
            usage == stats_basis[2]
            summary == stats_basis[3]
            today == stats_basis[1]
            returned == {<<today, top[i].app_name>> : i \in DOMAIN top}
        IN  /\ today_stats.total_seconds =
                   IF today \in DOMAIN summary THEN summary[today].total_seconds ELSE 0
            /\ Len(top) <= 10
            /\ Cardinality(returned) = Len(top)
            /\ \A i \in DOMAIN top :
                   /\ <<today, top[i].app_name>> \in QueriedRows
                   /\ top[i].duration = usage[<<today, top[i].app_name>>]
            /\ \A i, j \in DOMAIN top : i < j => top[i].duration >= top[j].duration
            /\ \A r \in QueriedRows \ returned :
                   \A i \in DOMAIN top : usage[r] <= top[i].duration
            /\ (QueriedRows = {} /\ today \notin DOMAIN summary) =>
                   (today_stats.total_seconds = 0 /\ top = <<>>)

\* the day has more than ten apps of different durations and ten are returned
C22_Witness ==
    /\ today_stats # NoStats
    /\ stats_basis # NoBasis
    /\ Cardinality(QueriedRows) > TopLimit
    /\ Len(today_stats.top_apps) = TopLimit
    /\ today_stats.top_apps[1].duration > today_stats.top_apps[TopLimit].duration

\* a step of one of the store's three queries
QueryStep == GetTodayStats \/ GetWeeklyStats \/ GetAppHistory

PollLocked == {"db_app_usage", "tick_update", "tick_reset", "final_release"}
UiLocked == {"db_app_usage", "pause_reset"}

\* C24: pause() and resume() always complete even if a probe call never
\* returns: the lock is never held while the probe is called, whoever holds
\* the lock is at a statement that needs nothing from the other thread, and
\* with the lock free resume() can be entered (pause() waits for the same
\* lock and for nothing else).
C24_PauseResumeNeverBlockedByProbe ==
    /\ pc["poll"] = "probe" => lock # "poll"
    /\ lock = "poll" <=> pc["poll"] \in PollLocked
    /\ lock = "ui" <=> pc["ui"] \in UiLocked
    /\ pc["poll"] = "tick_update" => ENABLED TickUpdate
    /\ pc["poll"] = "tick_reset" => ENABLED TickReset
    /\ pc["poll"] = "final_release" => ENABLED FinalRelease
    /\ pc["ui"] = "pause_reset" => ENABLED PauseReset
    /\ (pc["ui"] \notin UiLocked /\ lock = "free") => ENABLED Resume

\* pause() has flushed and returned while the polling thread is in the probe
C24_Witness ==
    /\ pc["poll"] = "probe"
    /\ pc["ui"] = "idle"
    /\ lock = "free"
    /\ tracking_paused
    /\ flushes # <<>>
    /\ LastFlush.by = "pause"

\* C25: only the polling loop writes the attribution state and only it calls
\* the store's increment: a step that is not a step of the polling thread
\* (pause(), resume(), stop(), the clock) changes neither current_app nor
\* app_start_time nor a stored row, and never enters record_app_usage.
C25_OnlyPollingLoopWrites ==
    [][ pc'["poll"] = pc["poll"] =>
           /\ UNCHANGED <<current_app, app_start_time, store>>
           /\ pc'["ui"] # "db_app_usage" ]_vars

\* pause() has returned and resume() has not been called since
PauseReturned == tracking_paused /\ pc["ui"] = "idle"

\* C26: whenever pause() has returned and resume() has not yet been called,
\* the engine has no attributed app, and the steps of the polling thread change
\* neither the attribution state nor the store.
C26_PausedEngineIsIdle ==
    /\ [](PauseReturned => ~Truthy(current_app))
    /\ [][ (PauseReturned /\ pc'["poll"] # pc["poll"]) =>
               UNCHANGED <<current_app, app_start_time, store>> ]_vars

\* C27: a tick that finds no trackable window while app A is attributed since
\* start credits the whole seconds of [start, now) to A, to A only, and the
\* engine becomes Idle; when no app is attributed such a tick changes nothing
\* and writes nothing.
C27_NoWindowFlushesAndIdles ==
    /\ [][TickNoWindow =>
            IF Truthy(current_app) /\ app_start_time # NoTime
            THEN \/ /\ FlushSeconds(app_start_time, now) > 0
                    /\ pc'["poll"] = "db_app_usage"
                    /\ ret'["poll"] = "tick_reset"
                    /\ lock' = "poll"
                    /\ call'.app_name = normalize_app_name(current_app)
                    /\ WholeSeconds(call'.duration_seconds, app_start_time, now)
                 \/ /\ FlushSeconds(app_start_time, now) = 0
                    /\ ~Truthy(current_app')
                    /\ app_start_time' = NoTime
                    /\ UNCHANGED <<store, flushes, call>>
            ELSE UNCHANGED <<engine, store, flushes, call>>]_vars
    /\ [][(RecordAppUsage("poll") /\ ret["poll"] = "tick_reset") =>
            /\ \A n \in CanonicalNames :
                   NameTotal(app_usage', n) - NameTotal(app_usage, n)
                     = IF n = normalize_app_name(current_app)
                       THEN call.duration_seconds ELSE 0
            /\ pc'["poll"] = "tick_reset"]_vars
    /\ [](pc["poll"] = "tick_reset" => (lock = "poll" /\ window_info = None))
    /\ [][pc["poll"] = "tick_reset" =>
            (pc'["poll"] = "tick_reset"
               \/ (~Truthy(current_app') /\ app_start_time' = NoTime
                      /\ UNCHANGED store))]_vars

\* C27 witness: a tick whose probe returned no window (without failing) has
\* credited the attributed app, and the engine is Idle in the tick's sleep
C27_Witness ==
    /\ pc["poll"] = "sleep"
    /\ ~Truthy(current_app)
    /\ app_start_time = NoTime
    /\ flushes # <<>>
    /\ LastFlush.by = "none"
    /\ ~LastFlush.raised
    /\ LastFlush.seconds > 0
    /\ NameTotal(disk_app_usage, normalize_app_name(LastFlush.app)) >= LastFlush.seconds

\* the calls of record_app_usage that did not raise
Succeeded(log) == SelectSeq(log, LAMBDA f : ~f.failed)

\* C28: a record_app_usage call that fails after the per-app upsert and before
\* the commit changes neither counter, and a later successful increment does
\* not make the partial update durable: between calls the committed per-app
\* totals and day totals are those of the calls that succeeded.
C28_FailedIncrementLeavesNoTrace ==
    call = NoCall =>
        /\ \A n \in CanonicalNames :
               NameTotal(disk_app_usage, n) = CreditedTo(Succeeded(flushes), n)
        /\ SumRows(disk_app_usage, DOMAIN disk_app_usage)
               = CreditedSeconds(Succeeded(flushes))
        /\ \A d \in DOMAIN disk_sessions :
               disk_sessions[d].total_seconds = DaySum(disk_app_usage, d)

\* the clock units of the flushed interval f spent on the long day d
SpentOn(f, d) == Cardinality({u \in f.start..(f.end - 1) : LongDay(u) = d})

\* C29: the time credited to a calendar day other than the one in which it
\* was spent is at most one poll interval per midnight crossing: of the seconds
\* an increment adds to a date, those not spent on that date are at most one
\* poll interval for every midnight between the interval's start and the call.
C29_MisdatedAtMostOnePoll ==
    [][RecordAppUsageLongDay =>
          LastFlush.seconds * TicksPerSecond - SpentOn(LastFlush, LongDay(now))
            <= poll_interval * TicksPerSecond
                 * (LongDay(now) - LongDay(LastFlush.start))]_vars

\* C30: when the application is quit from the tray menu while an app is
\* attributed, the open interval is flushed to the store before the process
\* exits: at the exit, an attributed app with a second or more of open
\* interval has had its final flush committed.
C30_QuitFlushesOpenInterval ==
    (/\ pc["ui"] = "killed"
     /\ Truthy(current_app)
     /\ app_start_time # NoTime
     /\ FlushSeconds(app_start_time, now) > 0) =>
        /\ flushes # <<>>
        /\ LastFlush.by = "final"
        /\ call = NoCall

\* the statements of record_app_usage: the two upserts and the commit
InStore == {"db_app_usage", "db_sessions", "db_commit"}

\* C31: every store increment, whether issued by a tick's flush, by pause() or
\* by the final flush, runs while its thread holds the engine lock, so the two
\* threads are never inside record_app_usage together and a statement of one
\* increment is never executed between the statements of another.
C31_IncrementsUnderLock ==
    /\ [](\A t \in {"poll", "ui"} : pc[t] \in InStore => lock = t)
    /\ [](~(pc["poll"] \in InStore /\ pc["ui"] \in InStore))
    /\ [][\A t \in {"poll", "ui"} :
            (pc[t] \in InStore /\ store' # store) =>
                (pc'[t] # pc[t] /\ lock = t)]_vars

\* C31 witness: pause() is between the statements of its increment while the
\* polling thread, whose probe has returned, waits at its with self.lock block
C31_Witness ==
    /\ pc["ui"] = "db_sessions"
    /\ lock = "ui"
    /\ pc["poll"] = "tick"
    /\ flushes # <<>>
    /\ LastFlush.by = "pause"

\* C32: for every date, the day summary's app_count equals the number of
\* distinct apps that have a usage record for that date, after any sequence of
\* increments.
C32_AppCountIsDistinctApps ==
    call = NoCall =>
        \A d \in DOMAIN sessions :
            sessions[d].app_count = Cardinality(DayRows(app_usage, d))

\* the engine as a pause() leaves it: paused, with no open interval
PausedAndClosed ==
    tracking_paused /\ ~(Truthy(current_app) /\ app_start_time # NoTime)

\* C33: pause() is idempotent and resume() is a no-op when not paused: pause()
\* returns with the engine paused and no open interval, a pause() entered in
\* that state (no tick or resume since) writes nothing to the store and leaves
\* the state unchanged, and a resume() when not paused changes neither the
\* attributed app nor its start time nor the store.
C33_PauseIdempotentResumeNoOp ==
    /\ [][((Pause \/ PauseReset) /\ pc'["ui"] = "idle") => PausedAndClosed']_vars
    /\ [][(Pause /\ PausedAndClosed) =>
            UNCHANGED <<engine, lock, pc, ret, call, store, flushes>>]_vars
    /\ [][(Resume /\ ~tracking_paused) =>
            UNCHANGED <<engine, lock, pc, ret, call, store, flushes>>]_vars

\* C33 witness: pause() has flushed and returned and time has passed, so that
\* a second pause() finds the engine as the first left it
C33_Witness ==
    /\ PauseReturned
    /\ PausedAndClosed
    /\ lock = "free"
    /\ pc["poll"] = "sleep"
    /\ flushes # <<>>
    /\ LastFlush.by = "pause"
    /\ now > LastFlush.end
    /\ disk_app_usage = app_usage

\* C34: in every reachable state, after any sequence of ticks, pause, resume,
\* stop and failed flushes, current_app is None exactly when app_start_time
\* is None.
C34_AppAndStartTogether ==
    (current_app = None) <=> (app_start_time = NoTime)

\* C34 witness: a flush of a tick has failed, pause() has flushed and reset
\* the attribution, resume() and stop() have been called
C34_Witness ==
    /\ \E i \in DOMAIN flushes : flushes[i].failed
    /\ \E i \in DOMAIN flushes : flushes[i].by = "pause" /\ ~flushes[i].failed
    /\ stop_called
    /\ ~tracking_paused
    /\ pc["ui"] = "idle"
    /\ current_app = None
    /\ app_start_time = NoTime

====
